---------------------------- MODULE Spec2Model ----------------------------
(* EEGResNet (braindecode/models/eegresnet.py): the construction of the     *)
(* module list by EEGResNet.__init__, the weight initialisation, and the    *)
(* forward pass over tensor shapes; and _ResidualBlock, constructed and run  *)
(* on its own.  A tensor is its shape and the contents of its channel axis  *)
(* (label 0: an all-zero channel, label i > 0: the channel numbered i).     *)
EXTENDS Integers, Sequences, FiniteSets, TLC

VARIABLES cfg, pc, err, modules, cur_dilation, n_cur_filters, n_out_filters,
          i_block, layers_left, training, x_in, out,
          bargs, bpc, berr, blk, btraining, bx0, bx, stack_1, stack_2, bout

vars == <<cfg, pc, err, modules, cur_dilation, n_cur_filters, n_out_filters,
          i_block, layers_left, training, x_in, out,
          bargs, bpc, berr, blk, btraining, bx0, bx, stack_1, stack_2, bout>>

netvars == <<cfg, pc, err, modules, cur_dilation, n_cur_filters, n_out_filters,
             i_block, layers_left, training, x_in, out>>

blockvars == <<bargs, bpc, berr, blk, btraining, bx0, bx, stack_1, stack_2, bout>>

(* ------------------------------ bounds ---------------------------------- *)
MaxSmallTimes == 1
MaxPoolLength == 2
MaxFirstFilters == 4
MaxLayersPerBlock == 2
MaxFilterLength == 3
MaxBatch == 2
MaxBlockFilters == 5
MaxBlockTimes == 2
MaxBlockWidth == 2
MaxFilterTimeLength == 3
MaxLog2Dilation == 6

(* --------------------------- program constants -------------------------- *)
NumBlocks == 7
DefaultFilterTimeLength == 3

RECURSIVE Pow2(_)
Pow2(k) == IF k = 0 THEN 1 ELSE 2 * Pow2(k - 1)

(* ------------------------------ class names ----------------------------- *)
(* A class name is the sequence of its parts, so that Python's              *)
(* `"Conv" in classname` is a membership test the model can evaluate.       *)
Ensure4dCls == <<"Ensure4d">>
RearrangeCls == <<"Rearrange">>
Conv2dCls == <<"Conv", "2d">>
BatchNorm2dCls == <<"BatchNorm", "2d">>
ELUCls == <<"ELU">>
ReLUCls == <<"ReLU">>
ResidualBlockCls == <<"_ResidualBlock">>
AdaptiveAvgPool2dCls == <<"AdaptiveAvgPool2d">>
AvgPool2dWithConvCls == <<"AvgPool2dWith", "Conv">>
SequentialCls == <<"Sequential">>
SqueezeFinalOutputCls == <<"SqueezeFinalOutput">>

ActivationClasses == {ELUCls, ReLUCls}

InClassname(part, cls) == \E i \in DOMAIN cls : cls[i] = part

(* -------------------------------- tensors ------------------------------- *)
Tensor(shape, ch) == [shape |-> shape, ch |-> ch, err |-> "none"]
Raise(msg) == [shape |-> <<>>, ch |-> <<>>, err |-> msg]
IsErr(x) == x.err # "none"
NoTensor == Raise("unset")

Channels(n) == [i \in 1..n |-> i]
Zeros(n) == [i \in 1..n |-> 0]

(* x.new_zeros(shape): a negative dimension raises.                         *)
NewZeros(shape) ==
    IF \E i \in DOMAIN shape : shape[i] < 0
    THEN Raise("RuntimeError: negative dimension")
    ELSE Tensor(shape, Zeros(shape[2]))

(* torch.cat(ts, dim=1) of three tensors.                                   *)
Cat3(a, b, c) ==
    IF IsErr(a) THEN a
    ELSE IF IsErr(b) THEN b
    ELSE IF IsErr(c) THEN c
    ELSE Tensor(<<b.shape[1], Len(a.ch) + Len(b.ch) + Len(c.ch), b.shape[3], b.shape[4]>>,
                a.ch \o b.ch \o c.ch)

Broadcastable(m, n) == m = n \/ m = 1 \/ n = 1
Max(m, n) == IF m >= n THEN m ELSE n

(* a + b with broadcasting; the sum's channels are new values.              *)
Add(a, b) ==
    IF IsErr(a) THEN a
    ELSE IF IsErr(b) THEN b
    ELSE IF Len(a.shape) # Len(b.shape)
            \/ \E i \in DOMAIN a.shape : ~Broadcastable(a.shape[i], b.shape[i])
    THEN Raise("RuntimeError: size mismatch")
    ELSE Tensor([i \in DOMAIN a.shape |-> Max(a.shape[i], b.shape[i])],
                Channels(Max(a.shape[2], b.shape[2])))

(* -------------------------------- modules ------------------------------- *)
(* A dilation a module holds: a tuple of its own, or (by_ref) the caller's   *)
(* array itself, whose later in-place changes the module would then see.    *)
OwnDilation(d) == [by_ref |-> FALSE, val |-> <<d[1], d[2]>>]
NoDilation == OwnDilation(<<1, 1>>)

(* A module: its class, its children in registration order, and the         *)
(* attributes its class gives it.                                           *)
Module(cls) == [cls |-> cls, children |-> <<>>]
HasAttr(m, attr) == attr \in DOMAIN m

Named(name, m) == [name |-> name, mod |-> m]

(* nn.Conv2d(in, out, kernel, stride, padding, dilation, bias): the weight   *)
(* and the bias start at torch's default initialisation.                    *)
Conv2d(in_ch, out_ch, kernel, stride, padding, dilation, bias) ==
    [cls |-> Conv2dCls, children |-> <<>>, in_ch |-> in_ch, out_ch |-> out_ch,
     kernel |-> kernel, stride |-> stride, padding |-> padding,
     dilation |-> dilation, weight |-> "default",
     bias |-> IF bias THEN "default" ELSE "None"]

(* nn.BatchNorm2d(n, affine=True): scale 1 and shift 0 by default.           *)
BatchNorm2d(n) ==
    [cls |-> BatchNorm2dCls, children |-> <<>>, num_features |-> n,
     weight |-> "one", bias |-> "zero"]

(* Module.add_module: a name already present is replaced in place.          *)
AddModule(mods, name, m) ==
    IF \E i \in DOMAIN mods : mods[i].name = name
    THEN [i \in DOMAIN mods |-> IF mods[i].name = name THEN Named(name, m) ELSE mods[i]]
    ELSE Append(mods, Named(name, m))


Child(m, name) == (CHOOSE i \in DOMAIN m.children : m.children[i].name = name)
ChildMod(m, name) == m.children[Child(m, name)].mod

(* ----------------------------- _ResidualBlock --------------------------- *)
(* Were the block to keep the array it is given.                            *)
KeepCallersArray(d) == [by_ref |-> TRUE, val |-> <<d[1], d[2]>>]
(* dilation = (int(dilation[0]), int(dilation[1])): the block keeps a tuple  *)
(* of its own, not the caller's array.                                      *)
CopyDilation(d) == OwnDilation(d)

PadAssertMsg == "AssertionError: time_padding"
ChanAssertMsg == "AssertionError: Need even number of extra channels in order to be able to pad correctly"

(* Were the padding not to follow the dilation.                              *)
PaddingIgnoresDilation(filter_time_length, dilation) == filter_time_length - 1
(* time_padding = int((filter_time_length - 1) * dilation[0])                *)
TimePadding(filter_time_length, dilation) == (filter_time_length - 1) * dilation[1]

(* Were the channel assertion missing.                                       *)
EvenDeltaUnchecked(in_filters, out_num_filters) == TRUE
(* assert (out_num_filters - in_filters) % 2 == 0                            *)
EvenDelta(in_filters, out_num_filters) == (out_num_filters - in_filters) % 2 = 0

(* _ResidualBlock.__init__: [err, mod]; err is the assertion that failed.    *)
ResidualBlock(in_filters, out_num_filters, dilation, filter_time_length, nonlinearity) ==
    LET time_padding0 == TimePadding(filter_time_length, dilation)
        time_padding == time_padding0 \div 2
        dil == CopyDilation(dilation)
        conv_1 == Conv2d(in_filters, out_num_filters, <<filter_time_length, 1>>,
                         <<1, 1>>, <<time_padding, 0>>, dil, TRUE)
        bn1 == BatchNorm2d(out_num_filters)
        conv_2 == Conv2d(out_num_filters, out_num_filters, <<filter_time_length, 1>>,
                         <<1, 1>>, <<time_padding, 0>>, dil, TRUE)
        bn2 == BatchNorm2d(out_num_filters)
        m == [cls |-> ResidualBlockCls,
              n_pad_chans |-> out_num_filters - in_filters,
              children |-> << Named("conv_1", conv_1), Named("bn1", bn1),
                              Named("conv_2", conv_2), Named("bn2", bn2),
                              Named("nonlinearity", Module(nonlinearity)) >>]
    IN  IF time_padding0 % 2 # 0
        THEN [err |-> PadAssertMsg, mod |-> Module(ResidualBlockCls)]
        ELSE IF ~EvenDelta(in_filters, out_num_filters)
        THEN [err |-> ChanAssertMsg, mod |-> Module(ResidualBlockCls)]
        ELSE [err |-> "none", mod |-> m]

(* ------------------------------ layer forward --------------------------- *)
(* Output length of a convolution along one axis; -1 when the kernel does   *)
(* not fit the padded input.                                                *)
ConvOut(len, k, s, p, d) ==
    LET eff == d * (k - 1) + 1
    IN  IF len + 2 * p < eff THEN -1 ELSE ((len + 2 * p - eff) \div s) + 1

Deref(dil) == IF dil.by_ref THEN cur_dilation ELSE dil.val

Conv2dForward(m, x) ==
    IF IsErr(x) THEN x
    ELSE IF Len(x.shape) # 4 THEN Raise("RuntimeError: expected 4D input")
    ELSE IF x.shape[2] # m.in_ch THEN Raise("RuntimeError: channels")
    ELSE LET d == Deref(m.dilation)
             h == ConvOut(x.shape[3], m.kernel[1], m.stride[1], m.padding[1], d[1])
             w == ConvOut(x.shape[4], m.kernel[2], m.stride[2], m.padding[2], d[2])
         IN  IF h < 1 \/ w < 1 THEN Raise("RuntimeError: kernel size")
             ELSE Tensor(<<x.shape[1], m.out_ch, h, w>>, Channels(m.out_ch))

(* Batch normalisation in training mode needs more than one value per       *)
(* channel.                                                                 *)
BatchNorm2dForward(m, x, tr) ==
    IF IsErr(x) THEN x
    ELSE IF Len(x.shape) # 4 THEN Raise("ValueError: expected 4D input")
    ELSE IF x.shape[2] # m.num_features THEN Raise("RuntimeError: running_mean")
    ELSE IF tr /\ x.shape[1] * x.shape[3] * x.shape[4] = 1
    THEN Raise("ValueError: Expected more than 1 value per channel when training")
    ELSE x

Nonlin(x) == x

(* Ensure4d: trailing axes of length 1 until the rank is 4.                  *)
Ensure4dForward(x) ==
    IF IsErr(x) THEN x
    ELSE Tensor(x.shape \o [i \in 1..(4 - Len(x.shape)) |-> 1], x.ch)

(* Rearrange("batch C T 1 -> batch 1 T C")                                  *)
DimshuffleForward(x) ==
    IF IsErr(x) THEN x
    ELSE IF Len(x.shape) # 4 \/ x.shape[4] # 1 THEN Raise("EinopsError")
    ELSE Tensor(<<x.shape[1], 1, x.shape[3], x.shape[2]>>, Channels(1))

AdaptiveAvgPool2dForward(x) ==
    IF IsErr(x) THEN x
    ELSE Tensor(<<x.shape[1], x.shape[2], 1, 1>>, x.ch)

(* AvgPool2dWithConv(kernel, stride, dilation): average pooling as a        *)
(* convolution with a constant kernel, channel by channel, no padding.       *)
AvgPool2dWithConvForward(m, x) ==
    IF IsErr(x) THEN x
    ELSE LET d == Deref(m.dilation)
             h == ConvOut(x.shape[3], m.kernel[1], m.stride[1], 0, d[1])
             w == ConvOut(x.shape[4], m.kernel[2], m.stride[2], 0, d[2])
         IN  IF h < 1 \/ w < 1 THEN Raise("RuntimeError: kernel size")
             ELSE Tensor(<<x.shape[1], x.shape[2], h, w>>, x.ch)

(* SqueezeFinalOutput: drop the last axis (of length 1), then the time axis  *)
(* when it has length 1.                                                    *)
SqueezeFinalOutputForward(x) ==
    IF IsErr(x) THEN x
    ELSE IF Len(x.shape) # 4 \/ x.shape[4] # 1 THEN Raise("EinopsError")
    ELSE IF x.shape[3] = 1 THEN Tensor(<<x.shape[1], x.shape[2]>>, x.ch)
    ELSE Tensor(<<x.shape[1], x.shape[2], x.shape[3]>>, x.ch)

(* _ResidualBlock.forward, line by line.                                    *)
Stack1(b, x, tr) ==
    Nonlin(BatchNorm2dForward(ChildMod(b, "bn1"), Conv2dForward(ChildMod(b, "conv_1"), x), tr))

Stack2(b, s1, tr) ==
    BatchNorm2dForward(ChildMod(b, "bn2"), Conv2dForward(ChildMod(b, "conv_2"), s1), tr)

(* Were all the zero channels put after the input's.                         *)
PadAfterOnly(b, x) ==
    IF b.n_pad_chans # 0
    THEN LET z == NewZeros(<<x.shape[1], b.n_pad_chans \div 2, x.shape[3], x.shape[4]>>)
         IN  Cat3(x, z, z)
    ELSE x
(* if self.n_pad_chans != 0: x = torch.cat((zeros, x, zeros), dim=1), with  *)
(* n_pad_chans // 2 zero channels in zeros.                                  *)
SkipPath(b, x) ==
    IF b.n_pad_chans # 0
    THEN LET z == NewZeros(<<x.shape[1], b.n_pad_chans \div 2, x.shape[3], x.shape[4]>>)
         IN  Cat3(z, x, z)
    ELSE x

SumOut(x, s2) == Nonlin(Add(x, s2))

ResidualBlockForward(b, x, tr) ==
    IF IsErr(x) THEN x
    ELSE LET s1 == Stack1(b, x, tr)
             s2 == Stack2(b, s1, tr)
         IN  IF IsErr(s1) THEN s1
             ELSE IF IsErr(s2) THEN s2
             ELSE SumOut(SkipPath(b, x), s2)

RECURSIVE Forward(_, _, _), SequentialForward(_, _, _, _)
(* nn.Sequential.forward: the children in order, from child i on.            *)
SequentialForward(children, i, x, tr) ==
    IF i > Len(children) \/ IsErr(x) THEN x
    ELSE SequentialForward(children, i + 1, Forward(children[i].mod, x, tr), tr)

Forward(m, x, tr) ==
    CASE m.cls = Ensure4dCls -> Ensure4dForward(x)
      [] m.cls = RearrangeCls -> DimshuffleForward(x)
      [] m.cls = Conv2dCls -> Conv2dForward(m, x)
      [] m.cls = BatchNorm2dCls -> BatchNorm2dForward(m, x, tr)
      [] m.cls \in ActivationClasses -> Nonlin(x)
      [] m.cls = ResidualBlockCls -> ResidualBlockForward(m, x, tr)
      [] m.cls = AdaptiveAvgPool2dCls -> AdaptiveAvgPool2dForward(x)
      [] m.cls = AvgPool2dWithConvCls -> AvgPool2dWithConvForward(m, x)
      [] m.cls = SequentialCls -> SequentialForward(m.children, 1, x, tr)
      [] m.cls = SqueezeFinalOutputCls -> SqueezeFinalOutputForward(x)

(* --------------------------- weight initialisation ---------------------- *)
(* EEGResNet._weights_init                                                  *)
WeightsInit(m) ==
    IF InClassname("Conv", m.cls) /\ m.cls # AvgPool2dWithConvCls
    THEN IF ~HasAttr(m, "weight") \/ ~HasAttr(m, "bias")
         THEN [cls |-> m.cls, children |-> m.children, weight |-> "AttributeError"]
         ELSE [m EXCEPT !.weight = "init_fn",
                        !.bias = IF m.bias # "None" THEN "zero" ELSE "None"]
    ELSE IF InClassname("BatchNorm", m.cls)
    THEN [m EXCEPT !.weight = "one", !.bias = "zero"]
    ELSE m

RECURSIVE Apply(_)
(* Were the function applied to a module and not to its children.            *)
ApplySelfOnly(m) == WeightsInit(m)
(* Module.apply(fn): the children first, recursively, then the module.       *)
Apply(m) ==
    WeightsInit([m EXCEPT !.children =
        [i \in DOMAIN m.children |->
            Named(m.children[i].name, Apply(m.children[i].mod))]])

(* Every module of a tree, the root included.                                *)
RECURSIVE Tree(_)
Tree(m) == {m} \cup UNION {Tree(m.children[i].mod) : i \in DOMAIN m.children}


(* ------------------------------- EEGResNet ------------------------------ *)
None == [none |-> TRUE, n |-> 0]
Some(n) == [none |-> FALSE, n |-> n]
Auto == [auto |-> TRUE, n |-> 0]
PoolLength(n) == [auto |-> FALSE, n |-> n]

(* The time lengths tried: short ones, and ones just past the span of the    *)
(* longest dilated pooling kernel.                                          *)
Times == (1..MaxSmallTimes)
         \cup {Pow2(NumBlocks - 1) * (MaxPoolLength - 1) + k : k \in 1..MaxSmallTimes}

(* The channel and class counts tried.                                       *)
ChanCounts == {1, 2}
OutputCounts == {1, 2}

(* The arguments of EEGResNet.__init__                                       *)
Configs ==
    [n_chans : ChanCounts,
     n_outputs : OutputCounts,
     n_times : {None} \cup {Some(t) : t \in Times},
     final_pool_length : {Auto} \cup {PoolLength(p) : p \in 1..MaxPoolLength},
     n_first_filters : 1..MaxFirstFilters,
     n_layers_per_block : 0..MaxLayersPerBlock,
     first_filter_length : 1..MaxFilterLength,
     activation : ActivationClasses,
     split_first_layer : BOOLEAN]

DummyConfig ==
    [n_chans |-> 1, n_outputs |-> 1, n_times |-> None, final_pool_length |-> Auto,
     n_first_filters |-> 1, n_layers_per_block |-> 0, first_filter_length |-> 1,
     activation |-> ELUCls, split_first_layer |-> FALSE]

Name(s) == <<s>>
(* "res_{:d}_{:d}".format(i_block, i_layer)                                  *)
ResName(b, l) == <<"res", b, l>>
IsResName(name) == Len(name) = 3

(* The residual unit EEGResNet builds: the filter length and the             *)
(* nonlinearity are left at _ResidualBlock's defaults.                       *)
ResUnit(in_filters, out_num_filters, dilation) ==
    ResidualBlock(in_filters, out_num_filters, dilation, DefaultFilterTimeLength, ELUCls)

(* Were the whole array doubled (cur_dilation *= 2).                         *)
DoubleBothAxes(d) == <<d[1] * 2, d[2] * 2>>
(* cur_dilation[0] *= 2                                                      *)
DoubleTime(d) == <<d[1] * 2, d[2]>>

(* Were block 3 to double the filters as block 2 does.                       *)
DoublesTwice(b, n, n_out) == IF b \in {2, 3} THEN 2 * n ELSE n_out
(* n_out_filters on entering block b: int(2 * n), int(1.5 * n), or as it was *)
OutFilters(b, n, n_out) ==
    IF b = 2 THEN 2 * n
    ELSE IF b = 3 THEN (3 * n) \div 2
    ELSE n_out

(* Whether block b's first unit is built with n_out_filters as its target.   *)
ChangesFilters(b) == b \in {2, 3}

(* The layers before the residual blocks.                                    *)
FirstLayers(c) ==
    LET m0 == AddModule(<<>>, Name("ensuredims"), Module(Ensure4dCls))
        m1 == IF c.split_first_layer
              THEN LET a == AddModule(m0, Name("dimshuffle"), Module(RearrangeCls))
                       b == AddModule(a, Name("conv_time"),
                               Conv2d(1, c.n_first_filters, <<c.first_filter_length, 1>>,
                                      <<1, 1>>, <<c.first_filter_length \div 2, 0>>,
                                      NoDilation, TRUE))
                   IN  AddModule(b, Name("conv_spat"),
                               Conv2d(c.n_first_filters, c.n_first_filters, <<1, c.n_chans>>,
                                      <<1, 1>>, <<0, 0>>, NoDilation, FALSE))
              ELSE AddModule(m0, Name("conv_time"),
                               Conv2d(c.n_chans, c.n_first_filters, <<c.first_filter_length, 1>>,
                                      <<1, 1>>, <<c.first_filter_length \div 2, 0>>,
                                      NoDilation, FALSE))
        m2 == AddModule(m1, Name("bnorm"), BatchNorm2d(c.n_first_filters))
    IN  AddModule(m2, Name("conv_nonlin"), Module(c.activation))

(* The pooling layer.                                                        *)
MeanPoolModule(c, dilation) ==
    IF c.final_pool_length.auto
    THEN Module(AdaptiveAvgPool2dCls)
    ELSE [cls |-> AvgPool2dWithConvCls, children |-> <<>>,
          kernel |-> <<c.final_pool_length.n, 1>>, stride |-> <<1, 1>>,
          dilation |-> OwnDilation(dilation)]

(* Were the classifier to give as many channels as it takes.                 *)
ClassifierKeepsFilters(n_filters, n_outputs) ==
    [cls |-> SequentialCls, children |->
        << Named("conv_classifier",
                 Conv2d(n_filters, n_filters, <<1, 1>>, <<1, 1>>, <<0, 0>>, NoDilation, TRUE)),
           Named("squeeze", Module(SqueezeFinalOutputCls)) >>]
(* The final layer: the classifier convolution and the squeeze.              *)
FinalLayerModule(n_filters, n_outputs) ==
    [cls |-> SequentialCls, children |->
        << Named("conv_classifier",
                 Conv2d(n_filters, n_outputs, <<1, 1>>, <<1, 1>>, <<0, 0>>, NoDilation, TRUE)),
           Named("squeeze", Module(SqueezeFinalOutputCls)) >>]


(* range(start, stop), as the sequence a for loop runs through.              *)
Range(start, stop) == [k \in 1..Max(0, stop - start) |-> start + k - 1]

(* Were block 1 to loop as the later blocks do.                              *)
Block1FromOne(n) == Range(1, n)
(* Block 1 loops over range(n_layers_per_block); the later blocks build      *)
(* layer 0 first and loop over range(1, n_layers_per_block).                 *)
Block1Layers(n) == Range(0, n)
RestLayers(n) == Range(1, n)

NetInit ==
    /\ cfg \in Configs
    /\ pc = "start"
    /\ err = "none"
    /\ modules = <<>>
    /\ cur_dilation = <<1, 1>>
    /\ n_cur_filters = 0
    /\ n_out_filters = 0
    /\ i_block = 0
    /\ layers_left = <<>>
    /\ training = TRUE
    /\ x_in = NoTensor
    /\ out = NoTensor

BlockIdle ==
    /\ bargs = [in_filters |-> 1, out_num_filters |-> 1, filter_time_length |-> 1]
    /\ bpc = "idle"
    /\ berr = "none"
    /\ blk = Module(ResidualBlockCls)
    /\ btraining = TRUE
    /\ bx0 = NoTensor
    /\ bx = NoTensor
    /\ stack_1 = NoTensor
    /\ stack_2 = NoTensor
    /\ bout = NoTensor

Init == NetInit /\ BlockIdle

(* __init__, the checks of its arguments.                                    *)
CheckArgs ==
    /\ pc = "start"
    /\ IF cfg.final_pool_length.auto /\ cfg.n_times.none
       THEN pc' = "failed" /\ err' = "AssertionError: n_times"
       ELSE IF cfg.first_filter_length % 2 # 1
       THEN pc' = "failed" /\ err' = "AssertionError: first_filter_length"
       ELSE pc' = "first_layers" /\ err' = err
    /\ UNCHANGED <<cfg, modules, cur_dilation, n_cur_filters, n_out_filters,
                   i_block, layers_left, training, x_in, out>>
    /\ UNCHANGED blockvars

(* ensuredims .. conv_nonlin; cur_dilation, n_cur_filters and i_block start; *)
(* block 1's loop is entered.                                                *)
FirstLayer ==
    /\ pc = "first_layers"
    /\ modules' = FirstLayers(cfg)
    /\ cur_dilation' = <<1, 1>>
    /\ n_cur_filters' = cfg.n_first_filters
    /\ i_block' = 1
    /\ layers_left' = Block1Layers(cfg.n_layers_per_block)
    /\ pc' = "blocks"
    /\ UNCHANGED <<cfg, err, n_out_filters, training, x_in, out>>
    /\ UNCHANGED blockvars

(* One pass of a block's for loop: a unit with as many filters out as in.    *)
LoopUnit ==
    /\ pc = "blocks"
    /\ layers_left # <<>>
    /\ LET r == ResUnit(n_cur_filters, n_cur_filters, cur_dilation)
       IN  IF r.err # "none"
           THEN /\ pc' = "failed" /\ err' = r.err
                /\ UNCHANGED <<modules, layers_left>>
           ELSE /\ modules' = AddModule(modules, ResName(i_block, Head(layers_left)), r.mod)
                /\ layers_left' = Tail(layers_left)
                /\ UNCHANGED <<pc, err>>
    /\ UNCHANGED <<cfg, cur_dilation, n_cur_filters, n_out_filters, i_block,
                   training, x_in, out>>
    /\ UNCHANGED blockvars

(* The loop of a block is over and a block follows: i_block += 1, the        *)
(* dilation doubles, the block's layer 0 is built, its loop is entered.      *)
EnterBlock ==
    /\ pc = "blocks"
    /\ layers_left = <<>>
    /\ i_block < NumBlocks
    /\ i_block' = i_block + 1
    /\ cur_dilation' = DoubleTime(cur_dilation)
    /\ n_out_filters' = OutFilters(i_block', n_cur_filters, n_out_filters)
    /\ LET target == IF ChangesFilters(i_block') THEN n_out_filters' ELSE n_cur_filters
           r == ResUnit(n_cur_filters, target, cur_dilation')
       IN  IF r.err # "none"
           THEN /\ pc' = "failed" /\ err' = r.err
                /\ UNCHANGED <<modules, n_cur_filters, layers_left>>
           ELSE /\ modules' = AddModule(modules, ResName(i_block', 0), r.mod)
                /\ n_cur_filters' = target
                /\ layers_left' = RestLayers(cfg.n_layers_per_block)
                /\ UNCHANGED <<pc, err>>
    /\ UNCHANGED <<cfg, training, x_in, out>>
    /\ UNCHANGED blockvars

(* self.eval(), then the pooling layer.                                      *)
MeanPool ==
    /\ pc = "blocks"
    /\ layers_left = <<>>
    /\ i_block = NumBlocks
    /\ training' = FALSE
    /\ modules' = AddModule(modules, Name("mean_pool"), MeanPoolModule(cfg, cur_dilation))
    /\ pc' = "final_layer"
    /\ UNCHANGED <<cfg, err, cur_dilation, n_cur_filters, n_out_filters, i_block,
                   layers_left, x_in, out>>
    /\ UNCHANGED blockvars

FinalLayer ==
    /\ pc = "final_layer"
    /\ modules' = AddModule(modules, Name("final_layer"),
                            FinalLayerModule(n_cur_filters, cfg.n_outputs))
    /\ pc' = "init_weights"
    /\ UNCHANGED <<cfg, err, cur_dilation, n_cur_filters, n_out_filters, i_block,
                   layers_left, training, x_in, out>>
    /\ UNCHANGED blockvars

(* self.apply(_weights_init): every child of the model, then the model,      *)
(* whose own class is neither a convolution nor a batch normalisation.       *)
ApplyToModel(mods) == [i \in DOMAIN mods |-> Named(mods[i].name, Apply(mods[i].mod))]

AllModules(mods) == UNION {Tree(mods[i].mod) : i \in DOMAIN mods}

InitWeights ==
    /\ pc = "init_weights"
    /\ modules' = ApplyToModel(modules)
    /\ IF \E m \in AllModules(modules') : HasAttr(m, "weight") /\ m.weight = "AttributeError"
       THEN pc' = "failed" /\ err' = "AttributeError"
       ELSE pc' = "train" /\ err' = err
    /\ UNCHANGED <<cfg, cur_dilation, n_cur_filters, n_out_filters, i_block,
                   layers_left, training, x_in, out>>
    /\ UNCHANGED blockvars

(* self.train(): construction is over.                                       *)
Train ==
    /\ pc = "train"
    /\ training' = TRUE
    /\ pc' = "built"
    /\ UNCHANGED <<cfg, err, modules, cur_dilation, n_cur_filters, n_out_filters,
                   i_block, layers_left, x_in, out>>
    /\ UNCHANGED blockvars

(* The caller puts the built model in evaluation mode.                        *)
Eval ==
    /\ pc = "built"
    /\ training
    /\ training' = FALSE
    /\ UNCHANGED <<cfg, pc, err, modules, cur_dilation, n_cur_filters, n_out_filters,
                   i_block, layers_left, x_in, out>>
    /\ UNCHANGED blockvars

(* The time lengths of an input: n_times when the model was given one.        *)
InputTimes(c) == IF c.n_times.none THEN Times ELSE {c.n_times.n}

(* A forward pass on an input of shape (batch, n_chans, n_times).             *)
ForwardPass ==
    /\ pc = "built"
    /\ \E b \in 1..MaxBatch, t \in InputTimes(cfg) :
          /\ x_in' = Tensor(<<b, cfg.n_chans, t>>, Channels(cfg.n_chans))
          /\ out' = SequentialForward(modules, 1, x_in', training)
    /\ pc' = "done"
    /\ UNCHANGED <<cfg, err, modules, cur_dilation, n_cur_filters, n_out_filters,
                   i_block, layers_left, training>>
    /\ UNCHANGED blockvars

Next ==
    \/ CheckArgs
    \/ FirstLayer
    \/ LoopUnit
    \/ EnterBlock
    \/ MeanPool
    \/ FinalLayer
    \/ InitWeights
    \/ Train
    \/ Eval
    \/ ForwardPass

Spec == Init /\ [][Next]_vars


(* ----------------------- _ResidualBlock on its own ----------------------- *)
(* The temporal dilations of the blocks: 1, 2, 4, ...                        *)
Dilations == {<<Pow2(k), 1>> : k \in 0..MaxLog2Dilation}

BlockArgs ==
    [in_filters : 1..MaxBlockFilters,
     out_num_filters : 1..MaxBlockFilters,
     filter_time_length : 1..MaxFilterTimeLength]

NetIdle ==
    /\ cfg = DummyConfig
    /\ pc = "idle"
    /\ err = "none"
    /\ modules = <<>>
    /\ cur_dilation \in Dilations
    /\ n_cur_filters = 0
    /\ n_out_filters = 0
    /\ i_block = 0
    /\ layers_left = <<>>
    /\ training = TRUE
    /\ x_in = NoTensor
    /\ out = NoTensor

(* A caller holds a dilation array (cur_dilation) and the block's arguments. *)
BlockInit ==
    /\ NetIdle
    /\ bargs \in BlockArgs
    /\ bpc = "new"
    /\ berr = "none"
    /\ blk = Module(ResidualBlockCls)
    /\ btraining = TRUE
    /\ bx0 = NoTensor
    /\ bx = NoTensor
    /\ stack_1 = NoTensor
    /\ stack_2 = NoTensor
    /\ bout = NoTensor

(* _ResidualBlock(in_filters, out_num_filters, dilation, filter_time_length) *)
BlockConstruct ==
    /\ bpc = "new"
    /\ LET r == ResidualBlock(bargs.in_filters, bargs.out_num_filters, cur_dilation,
                              bargs.filter_time_length, ELUCls)
       IN  IF r.err # "none"
           THEN bpc' = "ctor_failed" /\ berr' = r.err /\ blk' = blk
           ELSE bpc' = "constructed" /\ berr' = berr /\ blk' = r.mod
    /\ UNCHANGED <<bargs, btraining, bx0, bx, stack_1, stack_2, bout>>
    /\ UNCHANGED netvars

(* The caller puts the block in evaluation mode.                             *)
BlockEval ==
    /\ bpc = "constructed"
    /\ btraining
    /\ btraining' = FALSE
    /\ UNCHANGED <<bargs, bpc, berr, blk, bx0, bx, stack_1, stack_2, bout>>
    /\ UNCHANGED netvars

(* forward(x) is called on an input of shape (batch, in_filters, T, W).      *)
BlockCall ==
    /\ bpc = "constructed"
    /\ \E b \in 1..MaxBatch, t \in 1..MaxBlockTimes, w \in 1..MaxBlockWidth :
          bx0' = Tensor(<<b, bargs.in_filters, t, w>>, Channels(bargs.in_filters))
    /\ bx' = bx0'
    /\ bpc' = "stack_1"
    /\ UNCHANGED <<bargs, berr, blk, btraining, stack_1, stack_2, bout>>
    /\ UNCHANGED netvars

(* stack_1 = self.nonlinearity(self.bn1(self.conv_1(x)))                     *)
BlockStack1 ==
    /\ bpc = "stack_1"
    /\ stack_1' = Stack1(blk, bx, btraining)
    /\ IF IsErr(stack_1')
       THEN bpc' = "raised" /\ bout' = stack_1'
       ELSE bpc' = "stack_2" /\ bout' = bout
    /\ UNCHANGED <<bargs, berr, blk, btraining, bx0, bx, stack_2>>
    /\ UNCHANGED netvars

(* stack_2 = self.bn2(self.conv_2(stack_1))                                  *)
BlockStack2 ==
    /\ bpc = "stack_2"
    /\ stack_2' = Stack2(blk, stack_1, btraining)
    /\ IF IsErr(stack_2')
       THEN bpc' = "raised" /\ bout' = stack_2'
       ELSE bpc' = "pad" /\ bout' = bout
    /\ UNCHANGED <<bargs, berr, blk, btraining, bx0, bx, stack_1>>
    /\ UNCHANGED netvars

(* if self.n_pad_chans != 0: x = torch.cat((zeros, x, zeros), dim=1)         *)
BlockPad ==
    /\ bpc = "pad"
    /\ bx' = SkipPath(blk, bx)
    /\ IF IsErr(bx')
       THEN bpc' = "raised" /\ bout' = bx'
       ELSE bpc' = "sum" /\ bout' = bout
    /\ UNCHANGED <<bargs, berr, blk, btraining, bx0, stack_1, stack_2>>
    /\ UNCHANGED netvars

(* out = self.nonlinearity(x + stack_2); return out                          *)
BlockSum ==
    /\ bpc = "sum"
    /\ bout' = SumOut(bx, stack_2)
    /\ bpc' = IF IsErr(bout') THEN "raised" ELSE "returned"
    /\ UNCHANGED <<bargs, berr, blk, btraining, bx0, bx, stack_1, stack_2>>
    /\ UNCHANGED netvars

BlockNext ==
    \/ BlockConstruct
    \/ BlockEval
    \/ BlockCall
    \/ BlockStack1
    \/ BlockStack2
    \/ BlockPad
    \/ BlockSum

SpecBlock == BlockInit /\ [][BlockNext]_vars


(* ------------------------------- properties ------------------------------ *)
Constructed == pc \in {"built", "done"}
BlocksBuilt == pc \in {"final_layer", "init_weights", "train", "built", "done"}

(* The residual units of the model, in module order.                         *)
ResUnits == SelectSeq(modules, LAMBDA e : IsResName(e.name))
ResNames == [i \in DOMAIN ResUnits |-> ResUnits[i].name]
UnitIn(e) == ChildMod(e.mod, "conv_1").in_ch
UnitOut(e) == ChildMod(e.mod, "conv_2").out_ch
TopModule(name) == modules[CHOOSE i \in DOMAIN modules : modules[i].name = Name(name)].mod
HasTop(name) == \E i \in DOMAIN modules : modules[i].name = Name(name)
Classifier == ChildMod(TopModule("final_layer"), "conv_classifier")

InBatch == x_in.shape[1]
InTimes == x_in.shape[3]
OneValuePerChannel == training /\ InBatch * InTimes = 1
PooledTimes == InTimes - Pow2(NumBlocks - 1) * (cfg.final_pool_length.n - 1)

(* C1, as stated: the tensor a forward pass of a constructed model returns   *)
(* on an input of shape (batch, n_chans, n_times) has shape                  *)
(* (batch, n_outputs), whatever final_pool_length is.                        *)
C1_OutputIsBatchByOutputs ==
    (pc = "done" /\ ~IsErr(out)) => out.shape = <<InBatch, cfg.n_outputs>>

(* C1, amended: unless batch normalisation, in training mode, is given a     *)
(* single value per channel (batch * n_times = 1) and raises, the output has *)
(* shape (batch, n_outputs) when final_pool_length is "auto"; when it is an  *)
(* integer p the pooled time axis of length n_times - 64 * (p - 1) is kept:  *)
(* the shape is (batch, n_outputs, n_times - 64 * (p - 1)), or               *)
(* (batch, n_outputs) when that length is 1, and the pass raises when it is  *)
(* below 1.                                                                  *)
C1_OutputShape ==
    pc = "done" =>
        IF OneValuePerChannel THEN IsErr(out)
        ELSE IF cfg.final_pool_length.auto
        THEN ~IsErr(out) /\ out.shape = <<InBatch, cfg.n_outputs>>
        ELSE IF PooledTimes < 1 THEN IsErr(out)
        ELSE IF PooledTimes = 1
        THEN ~IsErr(out) /\ out.shape = <<InBatch, cfg.n_outputs>>
        ELSE ~IsErr(out) /\ out.shape = <<InBatch, cfg.n_outputs, PooledTimes>>

C1_Witness ==
    /\ pc = "done"
    /\ cfg.final_pool_length.auto
    /\ cfg.split_first_layer
    /\ cfg.n_chans = 2
    /\ cfg.n_layers_per_block = 2
    /\ cfg.first_filter_length = 3
    /\ training
    /\ out.shape = <<2, 2>>

BlockIn == bargs.in_filters
BlockOut == bargs.out_num_filters
BlockForwardOver == bpc \in {"returned", "raised"}
BlockOneValuePerChannel == btraining /\ bx0.shape[1] * bx0.shape[3] * bx0.shape[4] = 1

(* C2, as stated: every block that constructs returns, for every input of    *)
(* shape (batch, in_filters, T, W) (that batch normalisation accepts), a     *)
(* tensor of shape (batch, out_num_filters, T, W).                           *)
C2_BlockKeepsShape ==
    (BlockForwardOver /\ ~BlockOneValuePerChannel) =>
        /\ bpc = "returned"
        /\ bout.shape = <<bx0.shape[1], BlockOut, bx0.shape[3], bx0.shape[4]>>

(* C2, amended: a block that constructs with out_num_filters >= in_filters   *)
(* returns, for every input of shape (batch, in_filters, T, W) with more     *)
(* than one value per channel or in evaluation mode, a tensor of shape       *)
(* (batch, out_num_filters, T, W), for every temporal dilation 1, 2, ..., 64;*)
(* each convolution pads (filter_time_length - 1) * dilation / 2 on each     *)
(* side of the time axis and nothing on the other axis.                      *)
C2_BlockKeepsShapeWhenGrowing ==
    /\ (BlockForwardOver /\ BlockOut >= BlockIn /\ ~BlockOneValuePerChannel) =>
            /\ bpc = "returned"
            /\ bout.shape = <<bx0.shape[1], BlockOut, bx0.shape[3], bx0.shape[4]>>
    /\ bpc \notin {"new", "ctor_failed"} =>
            \A c \in {"conv_1", "conv_2"} :
                /\ 2 * ChildMod(blk, c).padding[1]
                      = (bargs.filter_time_length - 1) * Deref(ChildMod(blk, c).dilation)[1]
                /\ ChildMod(blk, c).padding[2] = 0
                /\ Deref(ChildMod(blk, c).dilation) = cur_dilation

C2_Witness ==
    /\ bpc = "returned"
    /\ cur_dilation = <<64, 1>>
    /\ bargs.filter_time_length = 3
    /\ BlockOut = BlockIn + 2
    /\ bx0.shape = <<2, BlockIn, 2, 2>>
    /\ bout.shape = <<2, BlockOut, 2, 2>>

PadDone == bpc \in {"sum", "returned"}
HalfPad == (BlockOut - BlockIn) \div 2

(* C3: once the skip path is computed, it is the input itself when           *)
(* out_num_filters = in_filters; when out_num_filters = in_filters + 2k,     *)
(* k >= 1, it has k zero channels, then the input's channels in their order, *)
(* then k zero channels: out_num_filters channels in all, the shape of the   *)
(* second batch-normalised convolution's output.                             *)
C3_SkipPathPadsSymmetrically ==
    PadDone =>
        /\ BlockOut = BlockIn => bx = bx0
        /\ BlockOut > BlockIn =>
              /\ BlockOut = BlockIn + 2 * HalfPad
              /\ HalfPad >= 1
              /\ Len(bx.ch) = BlockOut
              /\ \A i \in 1..HalfPad : bx.ch[i] = 0
              /\ \A i \in 1..BlockIn : bx.ch[HalfPad + i] = bx0.ch[i] /\ bx0.ch[i] # 0
              /\ \A i \in 1..HalfPad : bx.ch[HalfPad + BlockIn + i] = 0
              /\ bx.shape = <<bx0.shape[1], BlockOut, bx0.shape[3], bx0.shape[4]>>
        /\ bx.shape = stack_2.shape

C3_Witness ==
    /\ bpc = "sum"
    /\ BlockIn = 1
    /\ BlockOut = 5
    /\ bx.ch = <<0, 0, 1, 0, 0>>

Odd(n) == n % 2 = 1

(* C4: _ResidualBlock's construction fails on its channel assertion exactly  *)
(* when out_num_filters - in_filters is odd; so EEGResNet's construction     *)
(* fails, on that assertion, as soon as a block would grow by an odd number  *)
(* of channels, every unit it holds has an even increment, and with an odd   *)
(* n_first_filters it never gets past block 2's first unit.                  *)
C4_OddDeltaFails ==
    /\ pc = "start" =>
          \A i \in 1..MaxBlockFilters, o \in 1..MaxBlockFilters :
              ResUnit(i, o, cur_dilation).err = IF Odd(o - i) THEN ChanAssertMsg ELSE "none"
    /\ (pc = "failed" /\ i_block >= 1) =>
          err = ChanAssertMsg /\ Odd(n_out_filters - n_cur_filters)
    /\ \A i \in DOMAIN ResUnits :
          /\ ~Odd(UnitOut(ResUnits[i]) - UnitIn(ResUnits[i]))
          /\ ~Odd(ResUnits[i].mod.n_pad_chans)
    /\ (Odd(cfg.n_first_filters) /\ i_block >= 2) =>
          pc = "failed" /\ ~BlocksBuilt

C4_Witness ==
    /\ pc = "failed"
    /\ err = ChanAssertMsg
    /\ cfg.n_first_filters = 3
    /\ i_block = 2
    /\ n_cur_filters = 3
    /\ n_out_filters = 6


UnitConvs(e) == {ChildMod(e.mod, "conv_1"), ChildMod(e.mod, "conv_2")}

(* C5: at every point of the construction and after it, every unit of block  *)
(* k built so far convolves with dilation (2^(k-1), 1), k in 1..7: the       *)
(* doublings of cur_dilation for the later blocks leave it as it was built.  *)
C5_BlockDilations ==
    \A i \in DOMAIN ResUnits :
        LET k == ResUnits[i].name[2]
        IN  /\ k \in 1..NumBlocks
            /\ \A c \in UnitConvs(ResUnits[i]) : Deref(c.dilation) = <<Pow2(k - 1), 1>>

C5_Witness ==
    /\ pc = "built"
    /\ cfg.n_layers_per_block = 2
    /\ Len(ResUnits) = 14
    /\ ResUnits[1].name = ResName(1, 0)
    /\ Deref(ChildMod(ResUnits[1].mod, "conv_1").dilation) = <<1, 1>>
    /\ ResUnits[14].name = ResName(7, 1)
    /\ Deref(ChildMod(ResUnits[14].mod, "conv_2").dilation) = <<64, 1>>

(* C6: in a constructed model with n_first_filters = n, the units of block 1 *)
(* map n to n channels, the first unit of block 2 maps n to 2n, the first    *)
(* unit of block 3 maps 2n to 3n, every other unit keeps its channel count,  *)
(* each unit takes the channel count its predecessor gives, and the          *)
(* classifier convolution takes 3n channels.                                 *)
C6_ChannelProgression ==
    Constructed =>
        LET n == cfg.n_first_filters
            U == ResUnits
        IN  /\ \A i \in DOMAIN U :
                  LET k == U[i].name[2]
                      l == U[i].name[3]
                      c1 == ChildMod(U[i].mod, "conv_1")
                      c2 == ChildMod(U[i].mod, "conv_2")
                  IN  /\ c1.out_ch = c2.in_ch /\ c2.in_ch = c2.out_ch
                      /\ k = 1 => UnitIn(U[i]) = n /\ UnitOut(U[i]) = n
                      /\ (k = 2 /\ l = 0) => UnitIn(U[i]) = n /\ UnitOut(U[i]) = 2 * n
                      /\ (k = 3 /\ l = 0) => UnitIn(U[i]) = 2 * n /\ UnitOut(U[i]) = 3 * n
                      /\ ~(k \in {2, 3} /\ l = 0) => UnitIn(U[i]) = UnitOut(U[i])
                      /\ i > 1 => UnitIn(U[i]) = UnitOut(U[i - 1])
            /\ Classifier.in_ch = 3 * n
            /\ Classifier.in_ch = UnitOut(U[Len(U)])
            /\ Classifier.out_ch = cfg.n_outputs

C6_Witness ==
    /\ pc = "built"
    /\ cfg.n_first_filters = 4
    /\ cfg.n_layers_per_block = 2
    /\ UnitIn(ResUnits[3]) = 4
    /\ UnitOut(ResUnits[3]) = 8
    /\ UnitIn(ResUnits[5]) = 8
    /\ UnitOut(ResUnits[5]) = 12
    /\ Classifier.in_ch = 12

(* res_<block>_<layer> for block 1..7 and layer 0..n-1, block by block.      *)
SevenBlocksOf(n) ==
    [j \in 1..(NumBlocks * n) |-> ResName(((j - 1) \div n) + 1, (j - 1) % n)]

(* C7, as stated: for every n_layers_per_block, 0 included, a constructed    *)
(* model holds the 7 * n_layers_per_block units res_<block>_<layer>, block   *)
(* 1..7, layer 0..n_layers_per_block - 1, in block-then-layer order.         *)
C7_SevenTimesLayers ==
    Constructed => ResNames = SevenBlocksOf(cfg.n_layers_per_block)

(* C7, amended: for every n_layers_per_block >= 1 a constructed model holds  *)
(* the 7 * n_layers_per_block units res_<block>_<layer> in block-then-layer  *)
(* order; for n_layers_per_block = 0 block 1 is empty and blocks 2 to 7 hold *)
(* one unit each, res_2_0 .. res_7_0.                                        *)
C7_UnitsPerBlock ==
    Constructed =>
        IF cfg.n_layers_per_block >= 1
        THEN ResNames = SevenBlocksOf(cfg.n_layers_per_block)
        ELSE ResNames = [k \in 1..(NumBlocks - 1) |-> ResName(k + 1, 0)]

C7_Witness ==
    /\ pc = "built"
    /\ cfg.n_layers_per_block = 2
    /\ Len(ResNames) = 14
    /\ ResNames[2] = ResName(1, 1)
    /\ ResNames[13] = ResName(7, 0)

(* C8: once the weights are initialised, every batch normalisation of the    *)
(* module tree has scale 1 and shift 0, every Conv2d has the caller's        *)
(* initialiser applied to its weight and a bias that is 0 or absent (None),  *)
(* and the pooling helper is as it was built.                                *)
C8_WeightsInitialised ==
    pc \in {"train", "built", "done"} =>
        /\ \A m \in AllModules(modules) :
              /\ m.cls = BatchNorm2dCls => m.weight = "one" /\ m.bias = "zero"
              /\ m.cls = Conv2dCls => m.weight = "init_fn" /\ m.bias \in {"zero", "None"}
              /\ m.cls = AvgPool2dWithConvCls => m = MeanPoolModule(cfg, cur_dilation)
        /\ ChildMod(ResUnits[1].mod, "conv_1").bias = "zero"
        /\ Classifier.bias = "zero"
        /\ TopModule("conv_time").bias = IF cfg.split_first_layer THEN "zero" ELSE "None"

C8_Witness ==
    /\ pc = "built"
    /\ ~cfg.final_pool_length.auto
    /\ cfg.split_first_layer
    /\ cfg.n_layers_per_block = 2
    /\ TopModule("conv_spat").weight = "init_fn"
    /\ TopModule("conv_spat").bias = "None"
    /\ ChildMod(ResUnits[14].mod, "conv_2").weight = "init_fn"
    /\ ChildMod(ResUnits[14].mod, "conv_2").bias = "zero"
    /\ ChildMod(ResUnits[14].mod, "bn2").weight = "one"
    /\ Classifier.weight = "init_fn"
    /\ ~HasAttr(TopModule("mean_pool"), "weight")

(* C9: in a constructed model conv_nonlin and the nonlinearity of every      *)
(* residual unit are of the class given as `activation`.                     *)
C9_ActivationEverywhere ==
    Constructed =>
        /\ TopModule("conv_nonlin").cls = cfg.activation
        /\ \A i \in DOMAIN ResUnits :
              ChildMod(ResUnits[i].mod, "nonlinearity").cls = cfg.activation

(* C10, as stated: the temporal dilation is doubled 5 times over the 7       *)
(* blocks, so that the dilation left for the pooling is (32, 1).             *)
C10_FiveDoublings ==
    BlocksBuilt =>
        /\ cur_dilation = <<Pow2(5), 1>>
        /\ ~cfg.final_pool_length.auto => TopModule("mean_pool").dilation.val = <<Pow2(5), 1>>

(* C10, amended: the temporal dilation is doubled on entering each of blocks *)
(* 2 to 7, 6 times over the 7 blocks, so that the dilation left, the one the *)
(* fixed-length pooling is given, is (2^6, 1) = (64, 1).                     *)
C10_SixDoublings ==
    /\ i_block >= 1 => cur_dilation = <<Pow2(i_block - 1), 1>>
    /\ BlocksBuilt =>
          /\ i_block = NumBlocks
          /\ cur_dilation = <<Pow2(6), 1>>
          /\ ~cfg.final_pool_length.auto =>
                /\ ~TopModule("mean_pool").dilation.by_ref
                /\ TopModule("mean_pool").dilation.val = <<Pow2(6), 1>>

C10_Witness ==
    /\ pc = "built"
    /\ ~cfg.final_pool_length.auto
    /\ cfg.final_pool_length.n = 2
    /\ cur_dilation = <<64, 1>>
    /\ TopModule("mean_pool").dilation.val = <<64, 1>>
    /\ TopModule("mean_pool").kernel = <<2, 1>>

=============================================================================
